---- MODULE Spec2Model ----
(***************************************************************************)
(* ntfy-to-slack: the relay of internal/app, internal/processor,           *)
(* internal/ntfy, internal/slack and the post-processors of                *)
(* internal/config, as one single-threaded state machine.  The position of *)
(* the one goroutine is pc; every blocking call (Connect, one scanner      *)
(* step, one webhook attempt, one Send, the reconnect sleep) is one step.  *)
(***************************************************************************)
EXTENDS Integers, Sequences, FiniteSets, TLC

\* ---- bounds of the model ------------------------------------------------
MaxLines == 2        \* lines the source delivers on one connection
MaxConnects == 2     \* Connect calls in one run of the process
MaxRetries == 1      \* largest webhookMaxRetries among the configurations
MaxDeepRetries == 5  \* largest webhookMaxRetries when Process is run on its own
MaxSizeMB == 2       \* largest webhookMaxResponseSizeMB when Process is run on its own
MaxOver == 2         \* most bytes by which a response body exceeds the size cap
MaxCalls == 3        \* Process calls running concurrently on one post-processor

\* ---- program constants --------------------------------------------------
ReconnectDelay == 30     \* time.Sleep(30 * time.Second) in App.Run
BackoffCap == 30         \* math.Min(math.Pow(2, attempt), 30)
BytesPerMB == 1048576    \* w.maxResponseSizeMB * 1024 * 1024
DefaultSenderTimeout == 3    \* &http.Client{Timeout: 3 * time.Second} in NewSender

VARIABLES
    cfg,         \* the configuration, read-only after construction
    pc,          \* where the goroutine is: "connect", "scan", "webhook", "send", "blocked", "sent", "sleep", "returned", "panicked"
    connects,    \* number of Connect calls so far
    streamOpen,  \* number of source response bodies open (not yet closed)
    lastEnd,     \* how the last runOnce ended: "none", "eof", "readerr", "toolong", "connfail", "validation", "panic"
    slept,       \* seconds of the sleep App.Run is in (0: not sleeping)
    arrived,     \* lines read by the scanner on this connection, in order
    cur,         \* the message handleMessageEvent is working on
    slackMsg,    \* the *config.SlackMessage handed to Send
    procCalls,   \* postProcessor.Process calls on this connection
    procErr,     \* result of the last Process call: "none", "ok", "err"
    attempt,     \* loop variable of WebhookPostProcessor.Process
    outcomes,    \* outcome of every attempt of the current Process call
    backoffs,    \* seconds slept before each attempt of the current Process call
    sends,       \* every Send call on this connection: the event, the text, whether it succeeded
    gets,        \* GET requests Connect has handed to the HTTP client
    lastErr,     \* the lastErr local of WebhookPostProcessor.Process
    retErr,      \* the error Process returned to handleMessageEvent
    retMsg,      \* the *config.SlackMessage Process returned to handleMessageEvent
    sendErr,     \* the error a call of Sender.Send returned to its caller
    calls,       \* concurrent Process calls on one post-processor: position, locals, results
    errlog       \* the errors of the last step, each with the level of its log entry

vars == <<cfg, pc, connects, streamOpen, lastEnd, slept, arrived, cur, slackMsg,
          procCalls, procErr, attempt, outcomes, backoffs, sends, gets, lastErr,
          retErr, retMsg, sendErr, calls, errlog>>

supervisorVars == <<connects, streamOpen, lastEnd, slept, gets>>
webhookVars == <<attempt, outcomes, backoffs, lastErr>>

NoMsg == [Id |-> "", Time |-> 0, Event |-> "", Topic |-> "", Title |-> "", Message |-> ""]

\* config.NtfyMessage: the fields the relay reads
NtfyMessage(event, title, message) ==
    [Id |-> "", Time |-> 0, Event |-> event, Topic |-> "", Title |-> title, Message |-> message]

\* One line of the source stream.  json is the shape of the text on the line:
\* "garbage" (not JSON, or JSON of another type than object), "null" (the JSON
\* null), "object" (a JSON object with the fields of msg).
Lines ==
    { [json |-> "garbage", msg |-> NoMsg],
      [json |-> "null", msg |-> NoMsg],
      [json |-> "object", msg |-> NtfyMessage("open", "", "")],
      [json |-> "object", msg |-> NtfyMessage("keepalive", "", "")],
      [json |-> "object", msg |-> NtfyMessage("poll_request", "", "x")],
      [json |-> "object", msg |-> NtfyMessage("message", "", "a")],
      [json |-> "object", msg |-> NtfyMessage("message", "T", "a")],
      [json |-> "object", msg |-> NtfyMessage("message", "T", "bcd")] }

\* Unmarshal into a variable that outlives the loop iteration, the error ignored
Unmarshal_Stale(line) ==
    IF line.json = "object" THEN [err |-> FALSE, msg |-> line.msg]
    ELSE [err |-> FALSE, msg |-> IF arrived = <<>> THEN NoMsg ELSE arrived[Len(arrived)].msg]

\* json.Unmarshal([]byte(scanner.Text()), &msg) into a zero NtfyMessage:
\* an error for text that is not JSON or is JSON of another type than object;
\* null leaves the zero value and is no error.
Unmarshal(line) ==
    CASE line.json = "object" -> [err |-> FALSE, msg |-> line.msg]
      [] line.json = "null" -> [err |-> FALSE, msg |-> NoMsg]
      [] OTHER -> [err |-> TRUE, msg |-> NoMsg]

\* config.SlackMessage: Text names the content, bytes is len(Text); the text is
\* the first bytes bytes of the string Text names.
SlackMessage(text, bytes) == [Text |-> text, bytes |-> bytes]

\* The zero SlackMessage.
NoSlackMsg == SlackMessage("", 0)

\* A nil *config.SlackMessage.
NilSlackMsg == [nil |-> TRUE]

\* The title markers written whether or not there is a title
createDefaultMessage_AlwaysMarkers(msg) == "**" \o msg.Title \o "**: " \o msg.Message

\* MessageProcessor.createDefaultMessage
createDefaultMessage(msg) ==
    IF msg.Title # "" THEN "**" \o msg.Title \o "**: " \o msg.Message
    ELSE msg.Message

\* The templates of the configurations: text/template sources that pass
\* NewMustachePostProcessor's validation (empty message and sample message).
TemplateTitleMessage == "{{.Title}}: {{.Message}}"
TemplateSlice == "{{if .Title}}{{slice .Message 0 2}}{{end}}"
Templates == {TemplateTitleMessage, TemplateSlice}

\* Template sources that do not: an action that is never closed, which
\* template.Parse rejects, and a field NtfyMessage does not have, which parses
\* and fails at every execution.
TemplateBadSyntax == "{{.Title"
TemplateBadField == "{{.Nope}}"

\* template.New("message").Parse(templateContent) returns no error
TemplateParses(src) == src # TemplateBadSyntax

\* MustachePostProcessor.Process: template.Execute on the message.
\* slice fails at execution when the message is shorter than the bound; the
\* text of a sliced message is its first two bytes.
MustacheProcess(tmpl, msg) ==
    IF tmpl = TemplateTitleMessage
    THEN [err |-> FALSE, text |-> msg.Title \o ": " \o msg.Message]
    ELSE IF tmpl = TemplateSlice
    THEN IF msg.Title = "" THEN [err |-> FALSE, text |-> ""]
         ELSE IF Len(msg.Message) < 2 THEN [err |-> TRUE, text |-> ""]
         ELSE [err |-> FALSE, text |-> IF msg.Message = "bcd" THEN "bc" ELSE "Te"]
    ELSE [err |-> TRUE, text |-> ""]

\* The sample message of validateTemplateExecution.
SampleMessage ==
    [Id |-> "test-id", Time |-> 1640995200, Event |-> "message", Topic |-> "test-topic",
     Title |-> "Test Title", Message |-> "Test Message"]

\* validateTemplateExecution: the template is executed on the zero message
\* and on the sample message; the result is whether one of them failed.
validateTemplateExecution(tmpl) ==
    MustacheProcess(tmpl, NoMsg).err \/ MustacheProcess(tmpl, SampleMessage).err

\* NewMustachePostProcessor: the error ("nil" for none) and the template of
\* the post-processor.
NewMustachePostProcessor(templateContent) ==
    IF ~TemplateParses(templateContent) THEN [err |-> "parse", template |-> ""]
    ELSE IF validateTemplateExecution(templateContent) THEN [err |-> "validation", template |-> ""]
    ELSE [err |-> "nil", template |-> templateContent]

\* The template files of the file system: two that can be read, one that is
\* not there.
TemplateFiles == {"ok.tmpl", "bad.tmpl", "missing.tmpl"}

\* os.ReadFile(filePath)
ReadFile(filePath) ==
    CASE filePath = "ok.tmpl" -> [err |-> FALSE, content |-> TemplateTitleMessage]
      [] filePath = "bad.tmpl" -> [err |-> FALSE, content |-> TemplateBadSyntax]
      [] OTHER -> [err |-> TRUE, content |-> ""]

\* NewMustachePostProcessorFromFile
NewMustachePostProcessorFromFile(filePath) ==
    IF ReadFile(filePath).err THEN [err |-> "readfile", template |-> ""]
    ELSE NewMustachePostProcessor(ReadFile(filePath).content)

\* ---- internal/config: ValidateDomain, ValidateTopic ---------------------------
\* Domains and topics are sequences of characters.
Letters ==
    {"a", "b", "c", "d", "e", "f", "g", "h", "i", "j", "k", "l", "m",
     "n", "o", "p", "q", "r", "s", "t", "u", "v", "w", "x", "y", "z"}
Digits == {"0", "1"}
AlphaNum == Letters \cup Digits

DomainLabelMiddleMax == 61   \* [a-zA-Z0-9-]{0,61}
TldMinLen == 2               \* [a-zA-Z]{2,}
TopicMaxLen == 64            \* [a-zA-Z0-9_-]{1,64}

\* The positions of the dots of a domain.
DotsOf(domain) == {i \in DOMAIN domain : domain[i] = "."}

\* ^[a-zA-Z0-9]([a-zA-Z0-9-]{0,61}[a-zA-Z0-9])?(?:\.[a-zA-Z]{2,})+$
\* The first label runs to the first dot; every later label is letters only.
ValidateDomain(domain) ==
    LET dots == DotsOf(domain) IN
      /\ dots # {}
      /\ LET first == CHOOSE i \in dots : \A j \in dots : i <= j
             head == SubSeq(domain, 1, first - 1)
         IN /\ Len(head) >= 1
            /\ head[1] \in AlphaNum
            /\ Len(head) >= 2 =>
                 /\ head[Len(head)] \in AlphaNum
                 /\ Len(head) - 2 <= DomainLabelMiddleMax
                 /\ \A i \in 2..(Len(head) - 1) : head[i] \in AlphaNum \cup {"-"}
            /\ \A i \in (first + 1)..Len(domain) : domain[i] \in Letters \cup {"."}
            /\ \A d \in dots :
                 LET later == {e \in dots : e > d}
                     stop == IF later = {} THEN Len(domain) + 1
                             ELSE CHOOSE e \in later : \A f \in later : e <= f
                 IN stop - d - 1 >= TldMinLen

\* ^[a-zA-Z0-9_-]{1,64}$
ValidateTopic(topic) ==
    /\ Len(topic) >= 1
    /\ Len(topic) <= TopicMaxLen
    /\ \A i \in DOMAIN topic : topic[i] \in AlphaNum \cup {"_", "-"}

\* "ntfy.sh", "invalid-domain" (no top-level label), "a.b" (top-level label too short)
Domains ==
    { <<"n", "t", "f", "y", ".", "s", "h">>,
      <<"i", "n", "v", "a", "l", "i", "d", "-", "d", "o", "m", "a", "i", "n">>,
      <<"a", ".", "d">> }

\* "test-topic1", "no@", ""
Topics ==
    { <<"t", "e", "s", "t", "-", "t", "o", "p", "i", "c", "1">>,
      <<"n", "o", "@">>,
      <<>> }

ValidDomain == <<"n", "t", "f", "y", ".", "s", "h">>
ValidTopic == <<"t", "e", "s", "t", "-", "t", "o", "p", "i", "c", "1">>

\* ---- internal/slack: NewSender --------------------------------------------------
\* An *http.Client with its Timeout in seconds (0: no timeout), and the nil client.
HTTPClient(timeout) == [nil |-> FALSE, Timeout |-> timeout]
NilClient == [nil |-> TRUE, Timeout |-> 0]

\* NewSender keeps the client it is given and builds its own, with the
\* three-second timeout, only for a nil client.  The result is the sender's client.
NewSender(client) == IF client.nil THEN HTTPClient(DefaultSenderTimeout) ELSE client

\* App.New: httpClient := &http.Client{}; slack.NewSender(url, httpClient)
AppSender == NewSender(HTTPClient(0))

\* ---- internal/config: Config ------------------------------------------------------
\* config.Config with neither ShowVersion nor ShowHelp set.
Provider(domain, topic, auth, slackURL, webhook, templateFile, template, timeout, retries, sizeMB) ==
    [NtfyDomain |-> domain, NtfyTopic |-> topic, NtfyAuth |-> auth, SlackWebhookURL |-> slackURL,
     PostProcessWebhook |-> webhook, PostProcessTemplateFile |-> templateFile,
     PostProcessTemplate |-> template, WebhookTimeoutSeconds |-> timeout,
     WebhookRetries |-> retries, WebhookMaxResponseSizeMB |-> sizeMB]

\* The URLs of the configurations.
SlackURL == "https://hooks.slack.com/services/T/B/X"
HookURL == "http://hook.example/process"

\* The defaults of config.New for the webhook timeout.
DefaultWebhookTimeout == 30

\* url.Parse on the URLs of the configurations: whether it fails, and the
\* scheme and the host of the URL it returns.
ParseURL(u) ==
    CASE u = SlackURL -> [err |-> FALSE, Scheme |-> "https", Host |-> "hooks.slack.com"]
      [] u = "http://hooks.slack.com/services/T/B/X"
           -> [err |-> FALSE, Scheme |-> "http", Host |-> "hooks.slack.com"]
      [] u = HookURL -> [err |-> FALSE, Scheme |-> "http", Host |-> "hook.example"]
      [] u = "https://hook.example/process"
           -> [err |-> FALSE, Scheme |-> "https", Host |-> "hook.example"]
      [] u = "ftp://hook.example/process"
           -> [err |-> FALSE, Scheme |-> "ftp", Host |-> "hook.example"]
      [] u = "https://" -> [err |-> FALSE, Scheme |-> "https", Host |-> ""]
      [] u = "://bad" -> [err |-> TRUE, Scheme |-> "", Host |-> ""]
      [] OTHER -> [err |-> FALSE, Scheme |-> "", Host |-> ""]

\* The ranges of the webhook settings.
TimeoutLow == 1
TimeoutHigh == 300
RetriesLow == 0
RetriesHigh == 10
SizeLow == 1
SizeHigh == 100

\* The number of post-processing options that are set.
postProcessCount(c) ==
    (IF c.PostProcessWebhook # "" THEN 1 ELSE 0)
    + (IF c.PostProcessTemplateFile # "" THEN 1 ELSE 0)
    + (IF c.PostProcessTemplate # "" THEN 1 ELSE 0)

\* Two options let through, three rejected
TooManyOptions_MoreThanTwo(count) == count > 2

\* postProcessCount > 1
TooManyOptions(count) == count > 1

\* The upper end of the range left out
TimeoutOutOfRange_HighExcluded(t) == t < TimeoutLow \/ t >= TimeoutHigh

\* c.WebhookTimeoutSeconds < 1 || c.WebhookTimeoutSeconds > 300
TimeoutOutOfRange(t) == t < TimeoutLow \/ t > TimeoutHigh

\* c.WebhookRetries < 0 || c.WebhookRetries > 10
RetriesOutOfRange(r) == r < RetriesLow \/ r > RetriesHigh

\* c.WebhookMaxResponseSizeMB < 1 || c.WebhookMaxResponseSizeMB > 100
SizeOutOfRange(mb) == mb < SizeLow \/ mb > SizeHigh

\* Config.Validate: the first check that fails, "nil" when none does.
Validate(c) ==
    IF Len(c.NtfyTopic) = 0 THEN "topic required"
    ELSE IF c.SlackWebhookURL = "" THEN "slack url required"
    ELSE IF ~ValidateDomain(c.NtfyDomain) THEN "invalid domain"
    ELSE IF ~ValidateTopic(c.NtfyTopic) THEN "invalid topic"
    ELSE IF ParseURL(c.SlackWebhookURL).err \/ ParseURL(c.SlackWebhookURL).Scheme # "https"
            \/ ParseURL(c.SlackWebhookURL).Host = "" THEN "invalid slack url"
    ELSE IF TooManyOptions(postProcessCount(c)) THEN "only one option"
    ELSE IF c.PostProcessWebhook # ""
            /\ (ParseURL(c.PostProcessWebhook).err
                  \/ ParseURL(c.PostProcessWebhook).Scheme \notin {"http", "https"}
                  \/ ParseURL(c.PostProcessWebhook).Host = "") THEN "invalid webhook url"
    ELSE IF c.PostProcessWebhook # "" /\ TimeoutOutOfRange(c.WebhookTimeoutSeconds)
    THEN "timeout range"
    ELSE IF c.PostProcessWebhook # "" /\ RetriesOutOfRange(c.WebhookRetries)
    THEN "retries range"
    ELSE IF c.PostProcessWebhook # "" /\ SizeOutOfRange(c.WebhookMaxResponseSizeMB)
    THEN "size range"
    ELSE "nil"

\* ---- internal/app: App.New ------------------------------------------------------
\* postProcessor, err = config.NewMustachePostProcessor...(...): the result of
\* the constructor, a *MustachePostProcessor, is stored in the interface
\* variable postProcessor.  A constructor that fails returns the nil pointer,
\* and the interface that holds it is not nil ("nilptr"); err is only logged.
AssignPostProcessor(r) ==
    IF r.err # "nil" THEN [pp |-> "nilptr", template |-> "", err |-> r.err]
    ELSE [pp |-> "template", template |-> r.template, err |-> "nil"]

\* The inline template tried first, then the file, then the webhook
NewPostProcessor_InlineFirst(c) ==
    IF c.PostProcessTemplate # ""
    THEN AssignPostProcessor(NewMustachePostProcessor(c.PostProcessTemplate))
    ELSE IF c.PostProcessTemplateFile # ""
    THEN AssignPostProcessor(NewMustachePostProcessorFromFile(c.PostProcessTemplateFile))
    ELSE IF c.PostProcessWebhook # ""
    THEN [pp |-> "webhook", template |-> "", err |-> "nil"]
    ELSE [pp |-> "none", template |-> "", err |-> "nil"]

\* The post-processor New chooses: "webhook", "template" with its template,
\* "nilptr" (the nil *MustachePostProcessor of a failed constructor) or "none"
\* (the nil interface); err is the construction error New logs ("nil" for none).
NewPostProcessor(c) ==
    IF c.PostProcessWebhook # ""
    THEN [pp |-> "webhook", template |-> "", err |-> "nil"]
    ELSE IF c.PostProcessTemplateFile # ""
    THEN AssignPostProcessor(NewMustachePostProcessorFromFile(c.PostProcessTemplateFile))
    ELSE IF c.PostProcessTemplate # ""
    THEN AssignPostProcessor(NewMustachePostProcessor(c.PostProcessTemplate))
    ELSE [pp |-> "none", template |-> "", err |-> "nil"]

\* App.New: the App with its config, the post-processor of its processor (pp,
\* template, maxRetries, maxResponseSizeMB), the fields of its ntfy client
\* (domain, topic, auth), the client of its sender, and the error New logged.
New(c) ==
    [config |-> c,
     pp |-> NewPostProcessor(c).pp, template |-> NewPostProcessor(c).template,
     newErr |-> NewPostProcessor(c).err,
     maxRetries |-> c.WebhookRetries, maxResponseSizeMB |-> c.WebhookMaxResponseSizeMB,
     domain |-> c.NtfyDomain, topic |-> c.NtfyTopic, auth |-> c.NtfyAuth,
     sender |-> AppSender]

\* The App for a configuration that asks for the post-processor pp (with the
\* inline template for "template") and no token, with sender as its sender.
Config(pp, template, maxRetries, sizeMB, domain, topic, sender) ==
    [New(Provider(domain, topic, "", SlackURL, IF pp = "webhook" THEN HookURL ELSE "", "",
                  IF pp = "template" THEN template ELSE "",
                  DefaultWebhookTimeout, maxRetries, sizeMB))
       EXCEPT !.sender = sender]

\* The configurations App.New is constructed with (config.Provider).
Configs ==
    { Config("none", "", 0, 1, d, t, AppSender) : d \in Domains, t \in Topics }
    \cup { Config("template", tm, 0, 1, ValidDomain, ValidTopic, AppSender) : tm \in Templates }
    \cup { Config("webhook", "", r, 1, ValidDomain, ValidTopic, AppSender) : r \in 0..MaxRetries }

\* An error that occurred in a step and the level of the log entry written
\* for it: "error", "warn", "debug", or "none" when nothing was written.
Logged(kind, level) == [err |-> kind, level |-> level]

\* The nil error.
NoError == [kind |-> "nil", status |-> 0, attempts |-> 0]

Init ==
    /\ cfg \in Configs
    /\ pc = "connect"
    /\ connects = 0
    /\ streamOpen = 0
    /\ lastEnd = "none"
    /\ slept = 0
    /\ arrived = <<>>
    /\ cur = NoMsg
    /\ slackMsg = NoSlackMsg
    /\ procCalls = 0
    /\ procErr = "none"
    /\ attempt = 0
    /\ outcomes = <<>>
    /\ backoffs = <<>>
    /\ sends = <<>>
    /\ gets = 0
    /\ lastErr = NoError
    /\ retErr = NoError
    /\ retMsg = NilSlackMsg
    /\ sendErr = NoError
    /\ calls = <<>>
    /\ errlog = {}

\* ---- the environment: what the three HTTP peers can answer -----------------
\* Responses of the ntfy server to the GET of Connect.
SourceResponses ==
    { [kind |-> "neterr", status |-> 0],
      [kind |-> "resp", status |-> 200],
      [kind |-> "resp", status |-> 204],
      [kind |-> "resp", status |-> 500] }

\* A response body of size bytes.  shape "textobject": the first jsonEnd bytes
\* are a JSON value that decodes into a SlackMessage whose Text has textBytes
\* bytes (an object, with or without a text field, or null), and only white
\* space follows them; shape "plain": no prefix of the body is JSON.  raw names the
\* content of the whole body.
Body(shape, text, textBytes, raw, size, jsonEnd) ==
    [shape |-> shape, text |-> text, textBytes |-> textBytes, raw |-> raw,
     size |-> size, jsonEnd |-> jsonEnd]

\* A body that is exactly one JSON object {"text": text}.
JsonBody(text, raw) == Body("textobject", text, Len(text), raw, Len(raw), Len(raw))

\* A body that is not JSON.
PlainBody(raw) == Body("plain", "", 0, raw, Len(raw), 0)

\* Bodies of 2xx answers of the post-processing webhook.
WebhookBodies ==
    { JsonBody("hello", "{\"text\":\"hello\"}"),
      PlainBody("plain hi") }

NoBody == PlainBody("")

\* Answers to one POST of WebhookPostProcessor.Process: no response at all,
\* a status with a readable body, or a 2xx whose body fails while being read.
WebhookResponses ==
    { [kind |-> "neterr", status |-> 0, readErr |-> FALSE, body |-> NoBody] }
    \cup { [kind |-> "resp", status |-> st, readErr |-> FALSE, body |-> NoBody] : st \in {400, 500} }
    \cup { [kind |-> "resp", status |-> 200, readErr |-> TRUE, body |-> NoBody] }
    \cup { [kind |-> "resp", status |-> 200, readErr |-> FALSE, body |-> b] : b \in WebhookBodies }

\* Answers of the Slack webhook to the POST of Send: no response because the
\* connection fails, no response ever, an accepting and a rejecting status.
SinkResponses ==
    { [kind |-> "neterr", status |-> 0, readErr |-> FALSE],
      [kind |-> "hang", status |-> 0, readErr |-> FALSE],
      [kind |-> "resp", status |-> 200, readErr |-> FALSE],
      [kind |-> "resp", status |-> 404, readErr |-> FALSE] }

\* How the scanner's loop ends: scanner.Scan() returns false at EOF, on a read
\* error of the underlying reader, or on a line longer than the token limit.
StreamEnds == {"eof", "readerr", "toolong"}

\* scanner.Err(): nil at EOF, the error otherwise
ScannerErr(end) == IF end = "eof" THEN "nil" ELSE end

\* ---- internal/ntfy: HTTPClient.Connect ---------------------------------------
\* Every status below 500 taken for a stream
ConnectStatusOK_Below500(status) == status < 500

\* Any 2xx status taken for success
ConnectStatusOK_Any2xx(status) == status >= 200 /\ status <= 299

\* resp.StatusCode == http.StatusOK
ConnectStatusOK(status) == status = 200

\* The result of Connect: "validation" before any request, "connfail" for a
\* transport error or a status other than 200, "nil" with the open body.
Connect(resp) ==
    IF ~ValidateDomain(cfg.domain) \/ ~ValidateTopic(cfg.topic) THEN "validation"
    ELSE IF resp.kind = "neterr" THEN "connfail"
    ELSE IF ~ConnectStatusOK(resp.status) THEN "connfail"
    ELSE "nil"

\* The header with the token added whether or not there is a token
AuthHeaders_Always(auth) == { [name |-> "Authorization", value |-> "Bearer " \o auth] }

\* if n.auth != "" { req.Header.Add("Authorization", "Bearer "+n.auth) }
AuthHeaders(auth) ==
    IF auth # "" THEN { [name |-> "Authorization", value |-> "Bearer " \o auth] } ELSE {}

\* The request Connect hands to n.client.Do: GET https://{domain}/{topic}/json
\* (a valid topic has no character that url.PathEscape changes).
ConnectRequest ==
    [method |-> "GET", scheme |-> "https", host |-> cfg.domain, topic |-> cfg.topic,
     header |-> AuthHeaders(cfg.auth)]

\* Connect hands the request to the client whatever the validation said
\* Whether Connect closed the body of the response it received before it
\* returned: resp.Body.Close() in the branch of a status other than 200.
ConnectClosesBody(resp) == resp.kind = "resp" /\ ~ConnectStatusOK(resp.status)

ConnectRequests_BeforeValidation(err) == 1

\* The calls of n.client.Do in a Connect that returned err: the validation
\* errors are returned before the request is built.
ConnectRequests(err) == IF err = "validation" THEN 0 ELSE 1

\* ---- internal/app: App.Run ---------------------------------------------------
\* Run without the loop: whatever runOnce returned, Run returns
RunAfterRunOnce_AlwaysReturns(err) ==
    /\ pc' = "returned"
    /\ slept' = 0

\* The loop body of Run after runOnce returned err: an error is logged and
\* returned, a nil result is followed by the reconnect sleep.
RunAfterRunOnce(err) ==
    IF err # "nil"
    THEN /\ pc' = "returned"
         /\ slept' = 0
    ELSE /\ pc' = "sleep"
         /\ slept' = ReconnectDelay

\* runOnce up to the point where ProcessStream starts reading, and Run's
\* handling of a failed Connect.
runOnce ==
    /\ pc = "connect"
    /\ connects < MaxConnects
    /\ connects' = connects + 1
    /\ \E resp \in SourceResponses :
         LET err == Connect(resp) IN
           /\ gets' = gets + ConnectRequests(err)
           /\ IF err # "nil"
              THEN /\ lastEnd' = err
                   /\ RunAfterRunOnce(err)
                   /\ UNCHANGED <<streamOpen, arrived, sends, procCalls>>
              ELSE /\ streamOpen' = streamOpen + 1
                   /\ pc' = "scan"
                   /\ slept' = 0
                   /\ UNCHANGED <<lastEnd, arrived, sends, procCalls>>
           /\ errlog' = IF err # "nil" THEN {Logged("connect", "error")} ELSE {}
    /\ UNCHANGED <<cfg, cur, slackMsg, procErr, webhookVars, retErr, retMsg, sendErr, calls>>

\* The sleep of Run is over: the loop calls runOnce again.
RunWake ==
    /\ pc = "sleep"
    /\ pc' = "connect"
    /\ slept' = 0
    /\ errlog' = {}
    /\ UNCHANGED <<cfg, connects, streamOpen, lastEnd, gets, arrived, cur, slackMsg,
                   procCalls, procErr, webhookVars, sends, retErr, retMsg, sendErr, calls>>

\* ---- internal/config: WebhookPostProcessor.Process ---------------------------
\* attempt < w.maxRetries: one attempt short
LoopContinues_OffByOne(n) == n < cfg.maxRetries

\* for attempt := 0; attempt <= w.maxRetries; attempt++
LoopContinues(n) == n <= cfg.maxRetries

\* math.Pow(2, float64(attempt)) without the cap
BackoffSeconds_Uncapped(n) == 2^n

\* math.Min(math.Pow(2, float64(attempt)), 30)
BackoffSeconds(n) == IF 2^n < BackoffCap THEN 2^n ELSE BackoffCap

\* resp.StatusCode <= 200: a 200 taken for an error status
IsErrorStatus_Rejects200(status) == status <= 200 \/ status >= 300

\* resp.StatusCode < 200 || resp.StatusCode >= 300
IsErrorStatus(status) == status < 200 \/ status >= 300

\* resp.StatusCode > 400: a 400 is retried
IsClientError_Above400(status) == status > 400 /\ status < 500

\* resp.StatusCode >= 400 && resp.StatusCode < 500: returned at once, no retry
IsClientError(status) == status >= 400 /\ status < 500

\* maxBytes := int64(w.maxResponseSizeMB * 1024 * 1024)
MaxBytes == cfg.maxResponseSizeMB * BytesPerMB

\* io.LimitReader(resp.Body, maxBytes + 1): one byte more than the cap
LimitedRead_OneMore(body, maxBytes) ==
    [body EXCEPT !.size = IF body.size < maxBytes + 1 THEN body.size ELSE maxBytes + 1]

\* io.ReadAll(io.LimitReader(resp.Body, maxBytes)): the first maxBytes bytes
\* of the body, or all of it when it is shorter.
LimitedRead(body, maxBytes) ==
    [body EXCEPT !.size = IF body.size < maxBytes THEN body.size ELSE maxBytes]

\* A decoded message without text treated like a body that does not decode
DecodeSlackMessage_EmptyIsRaw(body) ==
    IF body.shape = "textobject" /\ body.jsonEnd <= body.size /\ body.textBytes > 0
    THEN SlackMessage(body.text, body.textBytes)
    ELSE SlackMessage(body.raw, body.size)

\* json.Unmarshal fails, and the failure leaves the text empty
DecodeSlackMessage_NoFallback(body) ==
    IF body.shape = "textobject" /\ body.jsonEnd <= body.size
    THEN SlackMessage(body.text, body.textBytes)
    ELSE NoSlackMsg

\* json.Unmarshal(body, &slackMsg) on the bytes read, with string(body) as the
\* text when it fails.  The bytes decode when they hold the whole JSON object.
DecodeSlackMessage(body) ==
    IF body.shape = "textobject" /\ body.jsonEnd <= body.size
    THEN SlackMessage(body.text, body.textBytes)
    ELSE SlackMessage(body.raw, body.size)

\* json.Marshal(message): the JSON object of the fields of NtfyMessage under
\* their Go names (the struct has no tags).  Time is 0 in every event here.
Marshal(msg) ==
    "{\"Id\":\"" \o msg.Id \o "\",\"Time\":0,\"Event\":\"" \o msg.Event
      \o "\",\"Topic\":\"" \o msg.Topic \o "\",\"Title\":\"" \o msg.Title
      \o "\",\"Message\":\"" \o msg.Message \o "\"}"

\* bytes.NewBuffer(payload): a reader over payload, nothing read yet.
NewBuffer(payload) == [data |-> payload, off |-> 0]

\* One buffer made before the loop and given to every request: the first
\* client.Do reads it to the end, later attempts find it empty
AttemptBuffer_MadeOnce(payload, n) ==
    [data |-> payload, off |-> IF n = 0 THEN 0 ELSE Len(payload)]

\* The body reader of the request of attempt n: http.NewRequest is called in
\* every iteration with a new buffer over the payload.
AttemptBuffer(payload, n) == NewBuffer(payload)

\* client.Do(req) sends what is left to read in the body: the bytes of data
\* from offset from on.
Do(buf) == [data |-> buf.data, from |-> buf.off]

\* What one attempt does with the answer to its POST: "continue" (next
\* iteration), "fail" (return nil, lastErr) or "ok" (return &slackMsg, nil).
AttemptResult(resp) ==
    IF resp.kind = "neterr" THEN "continue"
    ELSE IF IsErrorStatus(resp.status)
         THEN IF IsClientError(resp.status) THEN "fail" ELSE "continue"
    ELSE IF resp.readErr THEN "continue"
    ELSE "ok"

\* An error value: what failed, the status code it names, and the attempt
\* count of the "webhook failed after %d retries" wrapper (0: not wrapped).
Error(kind, status) == [kind |-> kind, status |-> status, attempts |-> 0]

\* The error one attempt assigns to lastErr: "webhook request failed",
\* "webhook returned status %d", "failed to read webhook response".
AttemptFailure(resp) ==
    IF resp.kind = "neterr" THEN Error("request", 0)
    ELSE IF IsErrorStatus(resp.status) THEN Error("status", resp.status)
    ELSE Error("read", 0)

\* lastErr is assigned only while it is nil: the first failure is kept
SetLastErr_KeepsFirst(old, new) == IF old.kind = "nil" THEN new ELSE old

\* lastErr = fmt.Errorf(...): every failed attempt overwrites lastErr
SetLastErr(old, new) == new

\* fmt.Errorf("webhook failed after %d retries: %w", w.maxRetries+1, lastErr)
ExhaustedError(err) == [err EXCEPT !.attempts = cfg.maxRetries + 1]

\* The 4xx return with the decoded body of the answer next to the error
ProcessResult_MessageWithError(r, resp, last) ==
    CASE r = "ok" -> [msg |-> DecodeSlackMessage(LimitedRead(resp.body, MaxBytes)), err |-> NoError]
      [] r = "fail" -> [msg |-> DecodeSlackMessage(LimitedRead(resp.body, MaxBytes)), err |-> last]
      [] OTHER -> [msg |-> NilSlackMsg, err |-> ExhaustedError(last)]

\* The return statements of WebhookPostProcessor.Process, for the result r of
\* the last attempt, its answer and lastErr: return &slackMsg, nil;
\* return nil, lastErr; return nil, fmt.Errorf("webhook failed after ...").
ProcessResult(r, resp, last) ==
    CASE r = "ok" -> [msg |-> DecodeSlackMessage(LimitedRead(resp.body, MaxBytes)), err |-> NoError]
      [] r = "fail" -> [msg |-> NilSlackMsg, err |-> last]
      [] OTHER -> [msg |-> NilSlackMsg, err |-> ExhaustedError(last)]

\* The return statements of MustachePostProcessor.Process for the result r
\* of template.Execute: return nil, fmt.Errorf("failed to execute template");
\* return &SlackMessage{Text: buf.String()}, nil.
\* The output buffer kept across calls instead of declared in Process: the
\* text of a call starts with the text of the call before
MustacheResult_SharedBuffer(r) ==
    IF r.err THEN [msg |-> NilSlackMsg, err |-> Error("template", 0)]
    ELSE LET before == IF sends = <<>> THEN "" ELSE sends[Len(sends)].text
             text == before \o r.text
         IN [msg |-> SlackMessage(text, Len(text)), err |-> NoError]

MustacheResult(r) ==
    IF r.err THEN [msg |-> NilSlackMsg, err |-> Error("template", 0)]
    ELSE [msg |-> SlackMessage(r.text, Len(r.text)), err |-> NoError]

\* ---- internal/processor: MessageProcessor -------------------------------------
\* handleMessageEvent returning the error of Process instead of falling back
handleProcessResult_ReturnsErr(err, text) ==
    /\ procErr' = IF err THEN "err" ELSE "ok"
    /\ slackMsg' = IF err THEN slackMsg ELSE text
    /\ pc' = IF err THEN "scan" ELSE "send"

\* handleMessageEvent after Process returned: the default format replaces a
\* failed post-processing, and the message goes to Send.
handleProcessResult(err, text) ==
    /\ procErr' = IF err THEN "err" ELSE "ok"
    /\ slackMsg' = IF err THEN LET d == createDefaultMessage(cur') IN SlackMessage(d, Len(d))
                   ELSE text
    /\ pc' = "send"

\* One iteration of the attempt loop of Process for an answer out of resps,
\* from the backoff sleep to the handling of the answer; the return of Process
\* continues in handleMessageEvent.
WebhookAttemptOn(resps) ==
    /\ pc = "webhook"
    /\ \E resp \in resps :
         LET r == AttemptResult(resp) IN
           /\ backoffs' = IF attempt > 0 THEN Append(backoffs, BackoffSeconds(attempt))
                                        ELSE backoffs
           /\ outcomes' = Append(outcomes,
                                  resp @@ [posted |-> Do(AttemptBuffer(Marshal(cur), attempt))])
           /\ cur' = cur
           /\ lastErr' = IF r = "ok" THEN lastErr ELSE SetLastErr(lastErr, AttemptFailure(resp))
           /\ IF r = "continue" /\ LoopContinues(attempt + 1)
              THEN /\ attempt' = attempt + 1
                   /\ UNCHANGED <<pc, procErr, slackMsg, retErr, retMsg>>
              ELSE /\ attempt' = IF r = "continue" THEN attempt + 1 ELSE attempt
                   /\ retErr' = ProcessResult(r, resp, lastErr').err
                   /\ retMsg' = ProcessResult(r, resp, lastErr').msg
                   /\ handleProcessResult(retErr' # NoError, retMsg')
           /\ errlog' = (IF r # "ok" THEN {Logged("attempt", "debug")} ELSE {})
                         \cup (IF r = "fail" \/ (r = "continue" /\ ~LoopContinues(attempt + 1))
                               THEN {Logged("postprocess", "warn")} ELSE {})
    /\ UNCHANGED <<cfg, supervisorVars, arrived, procCalls, sends, sendErr, calls>>

\* An attempt of a Process call inside the relay.
WebhookAttempt == WebhookAttemptOn(WebhookResponses)

\* default: the event is forwarded like a message
processMessage_DefaultHandles(msg) ==
    IF msg.Event \in {"open", "keepalive"} THEN "skip" ELSE "handle"

\* The switch of processMessage on msg.Event: "handle" calls
\* handleMessageEvent, "skip" returns nil after a debug log.
processMessage(msg) ==
    CASE msg.Event = "open" -> "skip"
      [] msg.Event = "keepalive" -> "skip"
      [] msg.Event = "message" -> "handle"
      [] OTHER -> "skip"

\* The loop reading on while Send is still running, as if handleMessageEvent
\* had been started with a go statement
ScannerTurn_WhileSending == pc \in {"scan", "send"}

\* for scanner.Scan() { ... processMessage(&msg) ... }: the loop calls
\* processMessage and is back at scanner.Scan() when the call has returned.
ScannerTurn == pc = "scan"

\* runOnce without the deferred Close
readerClose_Missing(open) == open

\* defer reader.Close() of runOnce: one open body less
readerClose(open) == open - 1

\* p.postProcessor != nil holds for the interface that holds a nil
\* *MustachePostProcessor, and Process on that receiver reads m.template: a nil
\* pointer dereference.  The panic unwinds ProcessStream, runs the deferred
\* reader.Close() of runOnce and ends the process.
ProcessPanics == cfg.pp = "nilptr"

\* One iteration of the scanner loop of ProcessStream: the line is decoded,
\* processMessage switches on the event, handleMessageEvent starts the
\* post-processing of a message event.
ProcessStreamLine ==
    /\ ScannerTurn
    /\ Len(arrived) < MaxLines
    /\ \E line \in Lines :
         LET u == Unmarshal(line) IN
           /\ arrived' = Append(arrived, line)
           /\ errlog' = IF u.err THEN {Logged("malformed", "error")}
                         ELSE IF processMessage(u.msg) = "handle" /\ cfg.pp = "template"
                                 /\ MustacheProcess(cfg.template, u.msg).err
                         THEN {Logged("postprocess", "warn")}
                         ELSE {}
           /\ IF ~u.err /\ processMessage(u.msg) = "handle" /\ ProcessPanics
              THEN streamOpen' = readerClose(streamOpen) /\ lastEnd' = "panic"
              ELSE UNCHANGED <<streamOpen, lastEnd>>
           /\ IF u.err \/ processMessage(u.msg) = "skip"
              THEN UNCHANGED <<pc, cur, slackMsg, procCalls, procErr, webhookVars, retErr, retMsg>>
              ELSE /\ cur' = u.msg
                   /\ CASE cfg.pp = "nilptr" ->
                             /\ procCalls' = procCalls + 1
                             /\ pc' = "panicked"
                             /\ UNCHANGED <<slackMsg, procErr, webhookVars, retErr, retMsg>>
                        [] cfg.pp = "none" ->
                             /\ slackMsg' = LET d == createDefaultMessage(u.msg)
                                            IN SlackMessage(d, Len(d))
                             /\ pc' = "send"
                             /\ procErr' = "none"
                             /\ UNCHANGED <<procCalls, webhookVars, retErr, retMsg>>
                        [] cfg.pp = "template" ->
                             LET r == MustacheProcess(cfg.template, u.msg) IN
                               /\ procCalls' = procCalls + 1
                               /\ retErr' = MustacheResult(r).err
                               /\ retMsg' = MustacheResult(r).msg
                               /\ handleProcessResult(retErr' # NoError, retMsg')
                               /\ UNCHANGED webhookVars
                        [] cfg.pp = "webhook" ->
                             /\ procCalls' = procCalls + 1
                             /\ pc' = "webhook"
                             /\ procErr' = "none"
                             /\ attempt' = 0
                             /\ outcomes' = <<>>
                             /\ backoffs' = <<>>
                             /\ lastErr' = NoError
                             /\ UNCHANGED <<slackMsg, retErr, retMsg>>
    /\ UNCHANGED <<cfg, connects, slept, gets, sends, sendErr, calls>>

\* ---- internal/slack: Sender.Send ----------------------------------------------
\* resp.StatusCode >= 400
IsSinkErrorStatus(status) == status >= 400

\* The error Send returns once client.Do has returned for an answer of the
\* sink: the error of client.Do (a transport failure, or the client's timeout
\* for an answer that does not come), the error of io.ReadAll, "error status
\* code N" for a status of 400 or more, nil otherwise.
SendResult(resp) ==
    IF resp.kind = "neterr" THEN Error("transport", 0)
    ELSE IF resp.kind = "hang" THEN Error("timeout", 0)
    ELSE IF resp.readErr THEN Error("read", 0)
    ELSE IF IsSinkErrorStatus(resp.status) THEN Error("status", resp.status)
    ELSE NoError

\* Send without the test for a nil message
SendRejects_Never(message) == FALSE

\* if message == nil { return errors.New("message is nil") }
SendRejects(message) == message = NilSlackMsg

\* The error Send returns for a message and, when it posts, the answer of the sink.
SendError(message, resp) ==
    IF SendRejects(message) THEN Error("nilmessage", 0) ELSE SendResult(resp)

\* client.Do returns: the sink answers or the connection fails, or the
\* client has a timeout (Timeout 0 means no timeout).
DoReturns(resp) == resp.kind # "hang" \/ cfg.sender.Timeout > 0

\* A Send that failed is tried again
AfterProcessMessage_RetrySend(err) ==
    /\ pc' = IF err # "nil" THEN "send" ELSE "scan"
    /\ UNCHANGED supervisorVars

\* ProcessStream returns the error of processMessage, and Run returns it
AfterProcessMessage_ReturnsErr(err) ==
    IF err # "nil"
    THEN /\ pc' = "returned"
         /\ lastEnd' = "delivery"
         /\ streamOpen' = streamOpen - 1
         /\ UNCHANGED <<connects, slept, gets>>
    ELSE /\ pc' = "scan"
         /\ UNCHANGED supervisorVars

\* ProcessStream after processMessage returned err: the error is logged and
\* the loop goes on to the next scanner.Scan().
AfterProcessMessage(err) ==
    /\ pc' = "scan"
    /\ UNCHANGED supervisorVars

\* handleMessageEvent's call of Send and the return to the scanner loop; the
\* locals of handleMessageEvent and of Process end with the call, and the
\* error of Send ends in the log.  When client.Do never returns the goroutine
\* stays in Send, with the message it was called for.
Send ==
    /\ pc = "send"
    /\ \E resp \in SinkResponses :
         IF SendRejects(slackMsg) \/ DoReturns(resp)
         THEN /\ sends' = Append(sends, [msg |-> cur, text |-> slackMsg.Text, proc |-> procErr,
                                          ok |-> (SendError(slackMsg, resp).kind = "nil")])
              /\ AfterProcessMessage(SendError(slackMsg, resp).kind)
              /\ errlog' = IF SendError(slackMsg, resp).kind # "nil"
                            THEN {Logged("delivery", "error")} ELSE {}
              /\ cur' = NoMsg
              /\ slackMsg' = NoSlackMsg
              /\ procErr' = "none"
              /\ attempt' = 0
              /\ outcomes' = <<>>
              /\ backoffs' = <<>>
              /\ lastErr' = NoError
              /\ retErr' = NoError
              /\ retMsg' = NilSlackMsg
         ELSE /\ pc' = "blocked"
              /\ errlog' = {}
              /\ attempt' = 0
              /\ outcomes' = <<>>
              /\ backoffs' = <<>>
              /\ lastErr' = NoError
              /\ retErr' = NoError
              /\ retMsg' = NilSlackMsg
              /\ UNCHANGED <<supervisorVars, sends, cur, slackMsg, procErr>>
    /\ UNCHANGED <<cfg, arrived, procCalls, sendErr, calls>>

\* Whether the Close of the response body returns an error.
CloseResults == BOOLEAN

\* defer reader.Close() of runOnce: the error Close returns is dropped, there
\* is no log entry for it.
readerCloseLog == Logged("close", "none")

\* scanner.Scan() returns false: ProcessStream returns scanner.Err(), the
\* deferred reader.Close() of runOnce runs, and Run handles the result.  The
\* scanner and the record of this connection end here.
ProcessStreamEnd ==
    /\ pc = "scan"
    /\ \E end \in StreamEnds, closeErr \in CloseResults :
         /\ lastEnd' = end
         /\ RunAfterRunOnce(ScannerErr(end))
         /\ errlog' = (IF ScannerErr(end) # "nil" THEN {Logged("read", "error")} ELSE {})
                       \cup (IF closeErr THEN {readerCloseLog} ELSE {})
    /\ streamOpen' = readerClose(streamOpen)
    /\ arrived' = <<>>
    /\ sends' = <<>>
    /\ procCalls' = 0
    /\ UNCHANGED <<cfg, connects, gets, cur, slackMsg, procErr, webhookVars, retErr, retMsg,
                   sendErr, calls>>

Next ==
    \/ runOnce
    \/ RunWake
    \/ ProcessStreamLine
    \/ WebhookAttempt
    \/ Send
    \/ ProcessStreamEnd

Spec == Init /\ [][Next]_vars

TypeOK ==
    /\ cfg \in Configs
    /\ pc \in {"connect", "scan", "webhook", "send", "blocked", "sleep", "returned", "panicked"}
    /\ connects \in 0..MaxConnects
    /\ streamOpen \in 0..1
    /\ Len(arrived) <= MaxLines

\* ---- WebhookPostProcessor.Process on its own --------------------------------------
\* Process called for one message with every retry count up to MaxDeepRetries
\* and every size cap up to MaxSizeMB, against a webhook that also answers
\* with bodies around and above the cap.

\* strings.Repeat("a", n): n bytes that are not JSON
BigPlainBody(n) == Body("plain", "", 0, "aaaa...", n, 0)

\* {"text":"hello"} followed by white space up to n bytes
PaddedJsonBody(n) ==
    LET json == "{\"text\":\"hello\"}" IN Body("textobject", "hello", Len("hello"), json \o "   ...", n, Len(json))

\* {"text":"xxxx..."} of n bytes: the text is all but the bytes around it
LongJsonBody(n) ==
    Body("textobject", "xxxx...", n - Len("{\"text\":\"\"}"), "{\"text\":\"xxxx...\"}", n, n)

\* The JSON object without fields: json.Unmarshal leaves Text empty.
EmptyObjectBody == JsonBody("", "{}")

\* The JSON null: json.Unmarshal leaves the zero SlackMessage and returns nil.
NullBody == JsonBody("", "null")

\* Bodies that are valid JSON for a SlackMessage and carry no text.
EmptyTextBodies == {EmptyObjectBody, NullBody}

ProcessBodies ==
    WebhookBodies
    \cup EmptyTextBodies
    \cup { BigPlainBody(MaxBytes + k) : k \in (0 - 1)..MaxOver }
    \cup { PaddedJsonBody(MaxBytes + k) : k \in 0..MaxOver }
    \cup { LongJsonBody(MaxBytes + k) : k \in 0..MaxOver }

ProcessResponses ==
    { [kind |-> "neterr", status |-> 0, readErr |-> FALSE, body |-> NoBody] }
    \cup { [kind |-> "resp", status |-> st, readErr |-> FALSE, body |-> NoBody] : st \in {302, 400, 503} }
    \cup { [kind |-> "resp", status |-> 200, readErr |-> TRUE, body |-> NoBody] }
    \cup { [kind |-> "resp", status |-> 200, readErr |-> FALSE, body |-> b] : b \in ProcessBodies }

ProcessConfigs ==
    { Config("webhook", "", r, mb, ValidDomain, ValidTopic, AppSender)
        : r \in 0..MaxDeepRetries, mb \in 1..MaxSizeMB }

\* handleMessageEvent has just called Process for the first message of the
\* first connection.
InitProcess ==
    /\ cfg \in ProcessConfigs
    /\ pc = "webhook"
    /\ connects = 1
    /\ gets = 1
    /\ streamOpen = 1
    /\ lastEnd = "none"
    /\ slept = 0
    /\ cur = NtfyMessage("message", "T", "a")
    /\ arrived = << [json |-> "object", msg |-> cur] >>
    /\ slackMsg = NoSlackMsg
    /\ procCalls = 1
    /\ procErr = "none"
    /\ attempt = 0
    /\ outcomes = <<>>
    /\ backoffs = <<>>
    /\ sends = <<>>
    /\ lastErr = NoError
    /\ retErr = NoError
    /\ retMsg = NilSlackMsg
    /\ sendErr = NoError
    /\ calls = <<>>
    /\ errlog = {}

\* An attempt of the Process call.
ProcessAttempt == WebhookAttemptOn(ProcessResponses)

NextProcess ==
    \/ ProcessAttempt
    \/ Send

SpecProcess == InitProcess /\ [][NextProcess]_vars

\* ---- Sender.Send on its own --------------------------------------------------------
\* One call of Send, by a sender built by App.New or by NewSender(url, nil),
\* against a sink that answers with any of a range of statuses; the error the
\* call returns stays in sendErr and the answer in outcomes.
SenderStatuses == {200, 201, 204, 299, 300, 304, 399, 400, 404, 429, 500, 503}

SenderResponses ==
    { [kind |-> "neterr", status |-> 0, readErr |-> FALSE],
      [kind |-> "hang", status |-> 0, readErr |-> FALSE] }
    \cup { [kind |-> "resp", status |-> st, readErr |-> re] : st \in SenderStatuses, re \in BOOLEAN }

SenderMessages ==
    { SlackMessage("**T**: a", 8), SlackMessage("a", 1), SlackMessage("", 0), NilSlackMsg }

SenderConfigs ==
    { Config("none", "", 0, 1, ValidDomain, ValidTopic, snd) : snd \in {AppSender, NewSender(NilClient)} }

\* handleMessageEvent is about to call Send for the first message of the
\* first connection.
InitSender ==
    /\ cfg \in SenderConfigs
    /\ pc = "send"
    /\ connects = 1
    /\ gets = 1
    /\ streamOpen = 1
    /\ lastEnd = "none"
    /\ slept = 0
    /\ cur = NtfyMessage("message", "T", "a")
    /\ arrived = << [json |-> "object", msg |-> cur] >>
    /\ slackMsg \in SenderMessages
    /\ procCalls = 0
    /\ procErr = "none"
    /\ attempt = 0
    /\ outcomes = <<>>
    /\ backoffs = <<>>
    /\ sends = <<>>
    /\ lastErr = NoError
    /\ retErr = NoError
    /\ retMsg = NilSlackMsg
    /\ sendErr = NoError
    /\ calls = <<>>
    /\ errlog = {}

\* Send from its call to its return ("sent"), or for good in client.Do; a
\* call that returns before client.Do leaves no answer in outcomes.
SenderSend ==
    /\ pc = "send"
    /\ IF SendRejects(slackMsg)
       THEN /\ pc' = "sent"
            /\ sendErr' = Error("nilmessage", 0)
            /\ outcomes' = outcomes
       ELSE \E resp \in SenderResponses :
              /\ outcomes' = <<resp>>
              /\ IF DoReturns(resp)
                 THEN /\ pc' = "sent"
                      /\ sendErr' = SendError(slackMsg, resp)
                 ELSE /\ pc' = "blocked"
                      /\ sendErr' = sendErr
    /\ UNCHANGED <<cfg, supervisorVars, arrived, cur, slackMsg, procCalls, procErr,
                   attempt, backoffs, lastErr, retErr, retMsg, sends, calls, errlog>>

NextSender == SenderSend

SpecSender == InitSender /\ [][NextSender]_vars

\* ---- HTTPClient.Connect on its own ---------------------------------------------------
\* One call of Connect, by a client with or without a token, against a
\* server that answers with any of a range of statuses or not at all; the
\* request and the answer stay in outcomes, the result in lastEnd and
\* streamOpen.
ConnectStatuses ==
    {100, 101, 200, 201, 202, 204, 206, 299, 300, 301, 302, 304, 400, 401, 403, 404, 429,
     500, 502, 503}

ConnectResponses ==
    { [kind |-> "neterr", status |-> 0, cause |-> c] : c \in {"dns", "timeout", "refused"} }
    \cup { [kind |-> "resp", status |-> st, cause |-> ""] : st \in ConnectStatuses }

AuthTokens == {"", "tk_secret", "t"}

ConnectConfigs ==
    { New(Provider(d, t, a, SlackURL, "", "", "", DefaultWebhookTimeout, 0, 1)) :
        d \in Domains, t \in Topics, a \in AuthTokens }

\* Run is about to call runOnce for the first time.
InitConnect ==
    /\ cfg \in ConnectConfigs
    /\ pc = "connect"
    /\ connects = 0
    /\ gets = 0
    /\ streamOpen = 0
    /\ lastEnd = "none"
    /\ slept = 0
    /\ cur = NoMsg
    /\ arrived = <<>>
    /\ slackMsg = NoSlackMsg
    /\ procCalls = 0
    /\ procErr = "none"
    /\ attempt = 0
    /\ outcomes = <<>>
    /\ backoffs = <<>>
    /\ sends = <<>>
    /\ lastErr = NoError
    /\ retErr = NoError
    /\ retMsg = NilSlackMsg
    /\ sendErr = NoError
    /\ calls = <<>>
    /\ errlog = {}

\* Connect from its call to its return ("connected"): lastEnd is the
\* error it returns, streamOpen counts the body it returns.
ConnectCall ==
    /\ pc = "connect"
    /\ pc' = "connected"
    /\ connects' = connects + 1
    /\ \E resp \in ConnectResponses :
         LET err == Connect(resp) IN
           /\ lastEnd' = err
           /\ gets' = gets + ConnectRequests(err)
           /\ outcomes' = IF ConnectRequests(err) = 1
                          THEN << [req |-> ConnectRequest, resp |-> resp,
                                   closed |-> ConnectClosesBody(resp)] >>
                          ELSE <<>>
           /\ streamOpen' = IF err = "nil" THEN streamOpen + 1 ELSE streamOpen
    /\ UNCHANGED <<cfg, slept, arrived, cur, slackMsg, procCalls, procErr, attempt, backoffs,
                   lastErr, retErr, retMsg, sends, sendErr, calls, errlog>>

NextConnect == ConnectCall

SpecConnect == InitConnect /\ [][NextConnect]_vars

\* ---- Config.Validate on its own -------------------------------------------------------
\* One call of Validate on a configuration with each setting valid, invalid
\* or absent, and the webhook settings at and next to the ends of their
\* ranges; the result stays in lastEnd.
ValidateConfigs ==
    { Provider(d, t, "", su, wh, tf, tm, to, r, mb) :
        d \in {ValidDomain, <<"a", ".", "d">>},
        t \in {ValidTopic, <<"n", "o", "@">>, <<>>},
        su \in {SlackURL, "", "http://hooks.slack.com/services/T/B/X"},
        wh \in {"", HookURL, "ftp://hook.example/process"},
        tf \in {"", "ok.tmpl", "bad.tmpl"},
        tm \in {"", TemplateTitleMessage, TemplateSlice},
        to \in {TimeoutLow - 1, TimeoutLow, TimeoutHigh, TimeoutHigh + 1},
        r \in {RetriesLow - 1, RetriesLow, RetriesHigh, RetriesHigh + 1},
        mb \in {SizeLow - 1, SizeLow, SizeHigh, SizeHigh + 1} }

\* main has parsed the configuration and built the App.
InitValidate ==
    /\ cfg \in { New(c) : c \in ValidateConfigs }
    /\ pc = "main"
    /\ connects = 0
    /\ gets = 0
    /\ streamOpen = 0
    /\ lastEnd = "none"
    /\ slept = 0
    /\ cur = NoMsg
    /\ arrived = <<>>
    /\ slackMsg = NoSlackMsg
    /\ procCalls = 0
    /\ procErr = "none"
    /\ attempt = 0
    /\ outcomes = <<>>
    /\ backoffs = <<>>
    /\ sends = <<>>
    /\ lastErr = NoError
    /\ retErr = NoError
    /\ retMsg = NilSlackMsg
    /\ sendErr = NoError
    /\ calls = <<>>
    /\ errlog = {}

\* cfg.Validate() from its call to its return ("validated").
ValidateCall ==
    /\ pc = "main"
    /\ pc' = "validated"
    /\ lastEnd' = Validate(cfg.config)
    /\ UNCHANGED <<cfg, connects, gets, streamOpen, slept, arrived, cur, slackMsg, procCalls,
                   procErr, webhookVars, sends, retErr, retMsg, sendErr, calls, errlog>>

NextValidate == ValidateCall

SpecValidate == InitValidate /\ [][NextValidate]_vars

\* ---- main ---------------------------------------------------------------------------
\* The process from the call of cfg.Validate() in main on, for configurations
\* that pass it (without post-processor, with a template inline or in a file,
\* with a template that cannot be constructed, with a webhook that is not
\* retried) and configurations that fail one of its checks.
StartupConfigs ==
    { Provider(ValidDomain, ValidTopic, "", SlackURL, "", "", tm, DefaultWebhookTimeout, 0, 1) :
        tm \in {TemplateBadSyntax, TemplateBadField} }
    \cup
    { Provider(ValidDomain, ValidTopic, "", SlackURL, "", tf, "", DefaultWebhookTimeout, 0, 1) :
        tf \in TemplateFiles }
    \cup
    { Provider(ValidDomain, ValidTopic, "", SlackURL, "", "", "", DefaultWebhookTimeout, 0, 1),
      Provider(ValidDomain, ValidTopic, "", SlackURL, "", "", TemplateTitleMessage,
               DefaultWebhookTimeout, 0, 1),
      Provider(ValidDomain, ValidTopic, "", SlackURL, HookURL, "", "", DefaultWebhookTimeout, 0, 1),
      Provider(<<"a", ".", "d">>, ValidTopic, "", SlackURL, "", "", "", DefaultWebhookTimeout, 0, 1),
      Provider(ValidDomain, <<>>, "", SlackURL, "", "", "", DefaultWebhookTimeout, 0, 1),
      Provider(ValidDomain, <<"n", "o", "@">>, "", SlackURL, "", "", "", DefaultWebhookTimeout, 0, 1),
      Provider(ValidDomain, ValidTopic, "", "", "", "", "", DefaultWebhookTimeout, 0, 1),
      Provider(ValidDomain, ValidTopic, "", "http://hooks.slack.com/services/T/B/X", "", "", "",
               DefaultWebhookTimeout, 0, 1),
      Provider(ValidDomain, ValidTopic, "", SlackURL, HookURL, "", TemplateTitleMessage,
               DefaultWebhookTimeout, 0, 1),
      Provider(ValidDomain, ValidTopic, "", SlackURL, "ftp://hook.example/process", "", "",
               DefaultWebhookTimeout, 0, 1),
      Provider(ValidDomain, ValidTopic, "", SlackURL, HookURL, "", "", TimeoutLow - 1, 0, 1),
      Provider(ValidDomain, ValidTopic, "", SlackURL, HookURL, "", "", DefaultWebhookTimeout,
               RetriesHigh + 1, 1),
      Provider(ValidDomain, ValidTopic, "", SlackURL, HookURL, "", "", DefaultWebhookTimeout, 0,
               SizeLow - 1) }

\* main has parsed the configuration, built the App and set up logging.
InitMain ==
    /\ cfg \in { New(c) : c \in StartupConfigs }
    /\ pc = "main"
    /\ connects = 0
    /\ gets = 0
    /\ streamOpen = 0
    /\ lastEnd = "none"
    /\ slept = 0
    /\ cur = NoMsg
    /\ arrived = <<>>
    /\ slackMsg = NoSlackMsg
    /\ procCalls = 0
    /\ procErr = "none"
    /\ attempt = 0
    /\ outcomes = <<>>
    /\ backoffs = <<>>
    /\ sends = <<>>
    /\ lastErr = NoError
    /\ retErr = NoError
    /\ retMsg = NilSlackMsg
    /\ sendErr = NoError
    /\ calls = <<>>
    /\ errlog = {}

\* main going on to application.Run() whatever Validate returned
mainAfterValidate_RunsAnyway(err) == pc' = "connect" /\ lastEnd' = lastEnd

\* main after cfg.Validate() returned err: "Configuration error: ..." on
\* stderr and os.Exit(1), or application.Run().
mainAfterValidate(err) ==
    IF err # "nil"
    THEN pc' = "exited" /\ lastEnd' = "config"
    ELSE pc' = "connect" /\ lastEnd' = lastEnd

\* main from cfg.Validate() to os.Exit(1) or to the call of application.Run().
mainValidate ==
    /\ pc = "main"
    /\ mainAfterValidate(Validate(cfg.config))
    /\ UNCHANGED <<cfg, connects, gets, streamOpen, slept, arrived, cur, slackMsg, procCalls,
                   procErr, webhookVars, sends, retErr, retMsg, sendErr, calls, errlog>>

NextMain ==
    \/ mainValidate
    \/ runOnce
    \/ RunWake
    \/ ProcessStreamLine
    \/ WebhookAttempt
    \/ Send
    \/ ProcessStreamEnd

SpecMain == InitMain /\ [][NextMain]_vars

\* ---- concurrent calls of WebhookPostProcessor.Process -----------------------------
\* MaxCalls goroutines call Process on one post-processor without retries.
\* Every call has its own payload, lastErr, attempt and resp (locals of
\* Process); the post-processor's fields are only read.  The endpoint's record
\* of requests is outcomes, each with the goroutine that sent it.
Goroutines == 1..MaxCalls

\* The state of the relay, which the concurrent calls do not touch.
relayVars ==
    <<cfg, pc, supervisorVars, arrived, cur, slackMsg, procErr, attempt, backoffs, lastErr,
      retErr, retMsg, sends, sendErr, errlog>>

\* lastErr, attempt and resp as fields of the post-processor, one for all calls
Frame_Shared(g) == 1

\* The locals of the call of goroutine g: var lastErr error,
\* for attempt := 0, resp, err := w.client.Do(req).
Frame(g) == g

\* The endpoint is healthy for a request or fails it with a 500.
HealthyResponse ==
    [kind |-> "resp", status |-> 200, readErr |-> FALSE,
     body |-> JsonBody("hello", "{\"text\":\"hello\"}")]

ConcurrentResponses ==
    { HealthyResponse, [kind |-> "resp", status |-> 500, readErr |-> FALSE, body |-> NoBody] }

NoResponse == [kind |-> "none", status |-> 0, readErr |-> FALSE, body |-> NoBody]

InitConcurrent ==
    /\ cfg = Config("webhook", "", 0, 1, ValidDomain, ValidTopic, AppSender)
    /\ pc = "concurrent"
    /\ connects = 0
    /\ gets = 0
    /\ streamOpen = 0
    /\ lastEnd = "none"
    /\ slept = 0
    /\ cur = NtfyMessage("message", "T", "a")
    /\ arrived = <<>>
    /\ slackMsg = NoSlackMsg
    /\ procCalls = 0
    /\ procErr = "none"
    /\ attempt = 0
    /\ outcomes = <<>>
    /\ backoffs = <<>>
    /\ sends = <<>>
    /\ lastErr = NoError
    /\ retErr = NoError
    /\ retMsg = NilSlackMsg
    /\ sendErr = NoError
    /\ calls = [at |-> [g \in Goroutines |-> "start"],
                local |-> [g \in Goroutines |->
                             [attempt |-> 0, lastErr |-> NoError, resp |-> NoResponse]],
                ret |-> [g \in Goroutines |-> [msg |-> NilSlackMsg, err |-> NoError]]]
    /\ errlog = {}

\* Goroutine g enters Process: the payload is marshalled, lastErr is nil and
\* the loop starts with attempt 0.
ConcurrentStart(g) ==
    /\ calls.at[g] = "start"
    /\ calls' = [calls EXCEPT !.at[g] = "post",
                              !.local[Frame(g)] =
                                  [attempt |-> 0, lastErr |-> NoError, resp |-> NoResponse]]
    /\ procCalls' = procCalls + 1
    /\ UNCHANGED <<outcomes, relayVars>>

\* Goroutine g builds its request and w.client.Do returns the answer of the
\* endpoint.
ConcurrentPost(g) ==
    /\ calls.at[g] = "post"
    /\ \E resp \in ConcurrentResponses :
         /\ outcomes' = Append(outcomes, [caller |-> g, resp |-> resp])
         /\ calls' = [calls EXCEPT !.at[g] = "handle", !.local[Frame(g)].resp = resp]
    /\ UNCHANGED <<procCalls, relayVars>>

\* Goroutine g handles the answer in its resp: the next iteration of the
\* loop, or the return of Process.
ConcurrentHandle(g) ==
    /\ calls.at[g] = "handle"
    /\ LET l == calls.local[Frame(g)]
           r == AttemptResult(l.resp)
           last == IF r = "ok" THEN l.lastErr ELSE SetLastErr(l.lastErr, AttemptFailure(l.resp))
       IN IF r = "continue" /\ LoopContinues(l.attempt + 1)
          THEN calls' = [calls EXCEPT !.at[g] = "post",
                                      !.local[Frame(g)].attempt = l.attempt + 1,
                                      !.local[Frame(g)].lastErr = last]
          ELSE calls' = [calls EXCEPT !.at[g] = "done",
                                      !.local[Frame(g)].lastErr = last,
                                      !.ret[g] = ProcessResult(r, l.resp, last)]
    /\ UNCHANGED <<outcomes, procCalls, relayVars>>

NextConcurrent ==
    \/ \E g \in Goroutines : ConcurrentStart(g)
    \/ \E g \in Goroutines : ConcurrentPost(g)
    \/ \E g \in Goroutines : ConcurrentHandle(g)

SpecConcurrent == InitConcurrent /\ [][NextConcurrent]_vars

\* ---- definitions shared by the properties -------------------------------------
\* A line that carries a message-kind event.
ValidMessageLine(line) == line.json = "object" /\ line.msg.Event = "message"

\* A line that is not decodable as an event at all.
MalformedLine(line) == line.json = "garbage"

\* The message events of a sequence of lines, in the order of the lines.
MessagesOf(lines) ==
    LET f == SelectSeq(lines, ValidMessageLine) IN [i \in 1..Len(f) |-> f[i].msg]

\* The goroutine is inside handleMessageEvent for the last line read.
InHandler == pc \in {"webhook", "send", "blocked"}

\* An attempt that failed retryably: no response, or a status in [500,599].
RetryableFailure(o) == o.kind = "neterr" \/ (o.kind = "resp" /\ o.status >= 500 /\ o.status <= 599)

Is2xx(o) == o.kind = "resp" /\ o.status >= 200 /\ o.status <= 299

\* handleMessageEvent has reached its call of Send, which has not returned.
AtSend == pc \in {"send", "blocked"}

Is4xx(o) == o.kind = "resp" /\ o.status >= 400 /\ o.status <= 499

\* Process of the webhook post-processor has returned for the current message.
ProcessReturned == cfg.pp = "webhook" /\ pc # "webhook" /\ outcomes # <<>>

\* The step in which postProcessor.Process returns to handleMessageEvent.
ProcessReturns ==
    \/ pc = "webhook" /\ pc' # "webhook"
    \/ pc = "scan" /\ cfg.pp = "template" /\ procCalls' = procCalls + 1

\* ---- C1 -----------------------------------------------------------------------
\* C1: a failed Connect (transport failure or non-2xx status) never makes
\* App.Run return; the supervisor stays in Connecting and retries after the delay.
C1_ConnectFailureNeverEndsRun == ~(pc = "returned" /\ lastEnd = "connfail")

\* ---- C2 -----------------------------------------------------------------------
\* C2: a stream-level read error (not EOF) never terminates App.Run; the
\* supervisor goes from Relaying back to Connecting.
C2_ReadErrorNeverEndsRun == ~(pc = "returned" /\ lastEnd = "readerr")

\* ---- C3 -----------------------------------------------------------------------
\* C3: when the stream ends with EOF, Run closes the stream, sleeps the fixed
\* 30 seconds and then goes back to Connect; Run never returns because of an EOF.
C3_EofReconnects ==
    [][ /\ (pc = "scan" /\ pc' \notin {"scan", "webhook", "send"} /\ lastEnd' = "eof")
            => (pc' = "sleep" /\ slept' = 30 /\ streamOpen' = 0)
        /\ (pc = "sleep") => (pc' = "connect" /\ streamOpen' = 0)
        /\ (pc' = "returned") => (lastEnd' # "eof") ]_vars

\* A second connection was opened after the first one ended with EOF.
C3_Witness == connects = 2 /\ lastEnd = "eof" /\ pc = "scan"

\* ---- C4 -----------------------------------------------------------------------
\* C4: when Process of the configured post-processor returns an error, the
\* default (None) format of the same event is what goes to Send, and the Send
\* is made.
C4_FallbackOnProcessError ==
    [][ /\ (ProcessReturns /\ procErr' = "err")
            => (pc' = "send" /\ slackMsg'.Text = createDefaultMessage(cur'))
        /\ (pc = "send" /\ procErr = "err")
            => \/ pc' = "blocked" /\ slackMsg' = slackMsg /\ cur' = cur
               \/ /\ Len(sends') = Len(sends) + 1
                  /\ sends'[Len(sends')].msg = cur
                  /\ sends'[Len(sends')].text = createDefaultMessage(cur) ]_vars

\* A Send whose post-processing had failed, for the webhook and for a template.
C4_Witness ==
    /\ sends # <<>>
    /\ sends[Len(sends)].proc = "err"
    /\ sends[Len(sends)].text = "**T**: a"
    /\ cfg.pp = "template"

\* ---- C5 -----------------------------------------------------------------------
\* C5: of the lines read on a connection, exactly the message-kind events
\* are forwarded to Send, in arrival order; malformed lines are skipped and
\* do not stop the stream.
C5_ForwardsValidInOrder ==
    LET done == IF InHandler THEN SubSeq(arrived, 1, Len(arrived) - 1) ELSE arrived IN
      /\ [i \in 1..Len(sends) |-> sends[i].msg] = MessagesOf(done)
      /\ InHandler => (ValidMessageLine(arrived[Len(arrived)]) /\ cur = arrived[Len(arrived)].msg)

\* A malformed line and then a message line: one Send, for the message.
C5_Witness ==
    /\ Len(arrived) = 2
    /\ MalformedLine(arrived[1]) /\ ValidMessageLine(arrived[2])
    /\ pc = "scan"
    /\ Len(sends) = 1 /\ sends[1].msg = arrived[2].msg

\* ---- C6 -----------------------------------------------------------------------
\* C6: with maxRetries = R, a Process call all of whose attempts failed
\* retryably (no response, or a status in [500,599]) made exactly R+1 POSTs
\* and returned an error.
C6_ExhaustsAfterRPlus1 ==
    (ProcessReturned /\ \A i \in DOMAIN outcomes : RetryableFailure(outcomes[i]))
        => (Len(outcomes) = cfg.maxRetries + 1 /\ procErr = "err")

\* Process returned after two failed POSTs, a transport failure and a 500.
C6_Witness ==
    /\ ProcessReturned
    /\ cfg.maxRetries = 1
    /\ Len(outcomes) = 2
    /\ outcomes[1].kind = "neterr" /\ outcomes[2].status = 500
    /\ procErr = "err"

\* ---- C7 -----------------------------------------------------------------------
\* C7: a 4xx answer ends Process at once with an error: it is the last attempt
\* of the call whatever the retry count, so a 4xx on the first attempt means
\* exactly one POST.
C7_ClientErrorNotRetried ==
    cfg.pp = "webhook" =>
        \A i \in DOMAIN outcomes :
            Is4xx(outcomes[i]) => (i = Len(outcomes) /\ AtSend /\ procErr = "err")

\* A 400 on the first attempt with retries left: one POST, Process failed.
C7_Witness ==
    /\ cfg.maxRetries = 1
    /\ Len(outcomes) = 1
    /\ outcomes[1].status = 400
    /\ pc = "send"

\* ---- C8 -----------------------------------------------------------------------
\* C8 (as stated): when the attempts before attempt k+1 failed retryably and
\* attempt k+1 received a 2xx response, Process made exactly k+1 POSTs and
\* returned success with the text of that response.
C8_FirstSuccessEnds ==
    cfg.pp = "webhook" =>
        \A i \in DOMAIN outcomes :
            (Is2xx(outcomes[i]) /\ \A j \in 1..(i - 1) : RetryableFailure(outcomes[j]))
                => /\ i = Len(outcomes)
                   /\ AtSend
                   /\ procErr = "ok"
                   /\ slackMsg = DecodeSlackMessage(LimitedRead(outcomes[i].body, MaxBytes))

\* C8 (amended): the same, for a 2xx response whose body was read without error.
C8_FirstReadableSuccessEnds ==
    cfg.pp = "webhook" =>
        \A i \in DOMAIN outcomes :
            (/\ Is2xx(outcomes[i])
             /\ ~outcomes[i].readErr
             /\ \A j \in 1..(i - 1) : RetryableFailure(outcomes[j]))
                => /\ i = Len(outcomes)
                   /\ AtSend
                   /\ procErr = "ok"
                   /\ slackMsg = DecodeSlackMessage(LimitedRead(outcomes[i].body, MaxBytes))

\* A retryable failure, then a 2xx with a JSON body: two POSTs, success.
C8_Witness ==
    /\ Len(outcomes) = 2
    /\ RetryableFailure(outcomes[1])
    /\ Is2xx(outcomes[2]) /\ ~outcomes[2].readErr
    /\ procErr = "ok"
    /\ slackMsg.Text = "hello"

\* ---- C9 -----------------------------------------------------------------------
\* C9: every message event read causes exactly one Process call (when a
\* post-processor is configured) and exactly one Send: a failed Send is not
\* repeated and an event that arrives twice is sent twice.
C9_OncePerMessage ==
    LET n == Len(MessagesOf(arrived)) IN
      /\ procCalls = IF cfg.pp = "none" THEN 0 ELSE n
      /\ Len(sends) = IF InHandler THEN n - 1 ELSE n

\* The same message event twice, the first Send failed: two Process calls, two Sends.
C9_Witness ==
    /\ Len(arrived) = 2
    /\ arrived[1] = arrived[2]
    /\ ValidMessageLine(arrived[1])
    /\ cfg.pp = "webhook"
    /\ procCalls = 2
    /\ Len(sends) = 2
    /\ ~sends[1].ok

\* ---- C10 ----------------------------------------------------------------------
\* C10: a Send that fails is contained: the scanner loop goes on with the
\* next line on the same open stream, and neither ProcessStream nor Run
\* returns because of it.
C10_DeliveryErrorContained ==
    [][ (pc = "send" /\ pc' \notin {"send", "blocked"})
            => /\ pc' = "scan"
               /\ streamOpen' = streamOpen
               /\ lastEnd' = lastEnd
               /\ arrived' = arrived
               /\ Len(sends') = Len(sends) + 1 ]_vars

\* A failed Send followed by the Send of the next line's message.
C10_Witness ==
    /\ Len(sends) = 2
    /\ ~sends[1].ok
    /\ sends[2].ok
    /\ sends[1].msg # sends[2].msg

\* ---- C11 ----------------------------------------------------------------------
\* C11: an event of kind open or keepalive, or of a kind the relay does not
\* know, causes neither a Process call nor a Send; only events of kind message
\* reach the post-processor and the sink.
C11_OnlyMessagesForwarded ==
    [][ /\ (/\ pc = "scan"
            /\ Len(arrived') = Len(arrived) + 1
            /\ ~MalformedLine(arrived'[Len(arrived')])
            /\ arrived'[Len(arrived')].msg.Event # "message")
           => (pc' = "scan" /\ procCalls' = procCalls /\ sends' = sends /\ outcomes' = outcomes)
        /\ (procCalls' = procCalls + 1) => (cur'.Event = "message")
        /\ \A i \in DOMAIN sends' : sends'[i].msg.Event = "message" ]_vars

\* An unknown event and a keepalive went by with a post-processor configured:
\* no Process call, no Send.
C11_Witness ==
    /\ pc = "scan"
    /\ Len(arrived) = 2
    /\ arrived[1].msg.Event = "poll_request"
    /\ arrived[2].msg.Event = "keepalive"
    /\ cfg.pp = "webhook"
    /\ procCalls = 0
    /\ sends = <<>>

\* ---- C12 ----------------------------------------------------------------------
\* C12: when the configured domain or topic fails validation, Connect returns
\* the validation error without handing any request to the HTTP client, and
\* Run returns it at once, without sleeping first.
C12_ValidationFailsFast ==
    [][ (/\ pc = "connect"
         /\ pc' # "connect"
         /\ ~(ValidateDomain(cfg.domain) /\ ValidateTopic(cfg.topic)))
            => /\ lastEnd' = "validation"
               /\ gets' = 0
               /\ streamOpen' = 0
               /\ pc' = "returned"
               /\ slept' = 0 ]_vars

\* Run has returned the validation error of a domain without top-level label.
C12_Witness ==
    /\ pc = "returned"
    /\ lastEnd = "validation"
    /\ ~ValidateDomain(cfg.domain)
    /\ ValidateTopic(cfg.topic)
    /\ connects = 1
    /\ gets = 0

\* ---- C13 ----------------------------------------------------------------------
\* C13: with the sender App.New builds, a call of Send whose request is never
\* answered does not stay in client.Do: the client's timeout cuts it off, so
\* the goroutine is never left waiting in Send for good.
C13_SendIsCutOff == pc # "blocked"

\* ---- C14 ----------------------------------------------------------------------
\* C14: at most one source stream is open at any time; it is open exactly
\* while ProcessStream reads it, and it is closed on every way out of runOnce,
\* so before the sleep, before the next Connect and when Run returns.
C14_StreamClosedOnExit ==
    /\ streamOpen \in 0..1
    /\ pc \in {"connect", "sleep", "returned"} => streamOpen = 0
    /\ pc \in {"scan", "webhook", "send", "blocked"} => streamOpen = 1

\* The second connection ended with a read error: Run returned, nothing open.
C14_Witness ==
    /\ pc = "returned"
    /\ lastEnd = "readerr"
    /\ connects = 2
    /\ gets = 2
    /\ streamOpen = 0

\* ---- definitions shared by C15 to C18 -------------------------------------------
\* Process returned success with the body of its last answer.
ReturnedBody ==
    ProcessReturned /\ Is2xx(outcomes[Len(outcomes)]) /\ ~outcomes[Len(outcomes)].readErr

\* The first MaxBytes bytes of the body hold a whole JSON object.
DecodableUnderCap(body) == body.shape = "textobject" /\ body.jsonEnd <= MaxBytes

\* ---- C15 ----------------------------------------------------------------------
\* C15 (as stated): for a 2xx answer whose body is longer than
\* maxResponseSizeMB * 1,048,576 bytes, Process succeeds and the text it
\* returns is exactly maxResponseSizeMB * 1,048,576 bytes long.
C15_TextIsCapLong ==
    (ReturnedBody /\ outcomes[Len(outcomes)].body.size > MaxBytes)
        => (procErr = "ok" /\ slackMsg.bytes = MaxBytes)

\* C15 (amended): for such a body Process succeeds; when the first cap bytes
\* are not a whole JSON object the text is exactly those cap bytes, and when
\* they are (the object is followed by white space beyond the cap) the text is
\* the decoded text field.
C15_TextIsCapLongUnlessJson ==
    (ReturnedBody /\ outcomes[Len(outcomes)].body.size > MaxBytes)
        => LET body == outcomes[Len(outcomes)].body IN
             /\ procErr = "ok"
             /\ retErr = NoError
             /\ IF DecodableUnderCap(body)
                THEN slackMsg = SlackMessage(body.text, body.textBytes)
                ELSE slackMsg = SlackMessage(body.raw, MaxBytes)

\* A plain body one byte over a cap of 2 MB came back as 2,097,152 bytes.
C15_Witness ==
    /\ pc = "send"
    /\ cfg.maxResponseSizeMB = 2
    /\ outcomes[Len(outcomes)].body.shape = "plain"
    /\ outcomes[Len(outcomes)].body.size = 2097153
    /\ procErr = "ok"
    /\ slackMsg.bytes = 2097152

\* ---- C16 ----------------------------------------------------------------------
\* C16: on a 2xx answer the text Process returns is the decoded text field
\* when the bytes read decode as a JSON object, and all the bytes read,
\* unchanged, when they do not.
C16_TextOrRawBody ==
    ReturnedBody
        => LET body == outcomes[Len(outcomes)].body
               bytesRead == IF body.size < MaxBytes THEN body.size ELSE MaxBytes
           IN /\ procErr = "ok"
              /\ DecodableUnderCap(body) => slackMsg = SlackMessage(body.text, body.textBytes)
              /\ ~DecodableUnderCap(body) => slackMsg = SlackMessage(body.raw, bytesRead)

\* A plain-text body after a failed attempt: the text is the body itself.
C16_Witness ==
    /\ pc = "send"
    /\ Len(outcomes) = 2
    /\ outcomes[2].body = PlainBody("plain hi")
    /\ slackMsg.Text = "plain hi"
    /\ slackMsg.bytes = 8

C18_BackoffSchedule ==
    /\ Len(backoffs) = IF outcomes = <<>> THEN 0 ELSE Len(outcomes) - 1
    /\ \A n \in DOMAIN backoffs :
         backoffs[n] = CASE n = 1 -> 2
                         [] n = 2 -> 4
                         [] n = 3 -> 8
                         [] n = 4 -> 16
                         [] OTHER -> 30

\* Six attempts were made: the sleeps were 2, 4, 8, 16 and 30 seconds.
C18_Witness ==
    /\ Len(outcomes) = 6
    /\ backoffs = <<2, 4, 8, 16, 30>>

\* ---- C19 ----------------------------------------------------------------------
\* C19: once the sink has answered and the answer was read, Send returns nil
\* exactly when the status is a 2xx; for every other status it returns an error.
C19_SuccessIff2xx ==
    (pc = "sent" /\ outcomes # <<>> /\ outcomes[1].kind = "resp" /\ ~outcomes[1].readErr)
        => ((sendErr = NoError) <=> Is2xx(outcomes[1]))

\* ---- C20 ----------------------------------------------------------------------
\* C20: whenever the sink answered with a status of 400 or more, the error
\* Send returns is the status error and carries that status code.
C20_StatusErrorCarriesCode ==
    (pc = "sent" /\ outcomes # <<>> /\ outcomes[1].kind = "resp" /\ outcomes[1].status >= 400)
        => (sendErr.kind = "status" /\ sendErr.status = outcomes[1].status)

\* ---- C21 ----------------------------------------------------------------------
\* C21: once the sink has returned a response, the result of Send is decided
\* by the status code alone: whether the body could be read makes no
\* difference, so an answer below 400 is a success and one of 400 or more a
\* failure, with a readable body and with a body whose read fails alike.
C21_StatusAloneDecides ==
    (pc = "sent" /\ outcomes # <<>> /\ outcomes[1].kind = "resp")
        => ((sendErr = NoError) <=> ~IsSinkErrorStatus(outcomes[1].status))

\* ---- C22 ----------------------------------------------------------------------
\* C22: Send called with a nil message returns an error, and no HTTP request
\* was made for it: the sink gave no answer to the call.
C22_NilMessageRejected ==
    (pc \in {"sent", "blocked"} /\ slackMsg = NilSlackMsg)
        => (pc = "sent" /\ sendErr.kind = "nilmessage" /\ outcomes = <<>>)

C22_Witness ==
    /\ pc = "sent"
    /\ slackMsg = NilSlackMsg
    /\ sendErr = Error("nilmessage", 0)
    /\ outcomes = <<>>

\* ---- C23 ----------------------------------------------------------------------
\* The text the default formatting has to give for the message events of Lines.
DefaultText(msg) ==
    CASE msg.Title = "T" /\ msg.Message = "a" -> "**T**: a"
      [] msg.Title = "T" /\ msg.Message = "bcd" -> "**T**: bcd"
      [] msg.Title = "" /\ msg.Message = "a" -> "a"

\* C23: with no post-processor configured, the text handed to the sink for a
\* message event is "**{title}**: {body}" when the title is not empty and the
\* body alone, with nothing before or after it, when the title is empty.
C23_DefaultFormat ==
    cfg.pp = "none"
        => \A i \in 1..Len(sends) : sends[i].text = DefaultText(sends[i].msg)

C23_Witness ==
    /\ cfg.pp = "none"
    /\ Len(sends) = 2
    /\ sends[1].msg = NtfyMessage("message", "T", "bcd")
    /\ sends[1].text = "**T**: bcd"
    /\ sends[2].msg = NtfyMessage("message", "", "a")
    /\ sends[2].text = "a"

\* ---- C24 ----------------------------------------------------------------------
\* C24: when the request of Connect fails at transport level (DNS, timeout,
\* connection refused) or is answered with a status outside 200..299, Connect
\* returns an error and no stream.
C24_ConnectFailsWithoutStream ==
    (pc = "connected" /\ outcomes # <<>>
       /\ (outcomes[1].resp.kind = "neterr"
             \/ outcomes[1].resp.status < 200 \/ outcomes[1].resp.status > 299))
        => (lastEnd = "connfail" /\ streamOpen = 0)

C24_Witness ==
    /\ pc = "connected"
    /\ outcomes # <<>>
    /\ outcomes[1].resp.kind = "resp"
    /\ outcomes[1].resp.status = 404
    /\ lastEnd = "connfail"
    /\ streamOpen = 0

\* ---- C25 ----------------------------------------------------------------------
\* C25: the request of Connect has the header Authorization: Bearer {token}
\* when a token is configured, and no Authorization header when the token is
\* empty.
C25_BearerIffToken ==
    (pc = "connected" /\ outcomes # <<>>)
        => LET header == outcomes[1].req.header IN
             /\ cfg.auth # "" =>
                  header = { [name |-> "Authorization", value |-> "Bearer " \o cfg.auth] }
             /\ cfg.auth = "" => \A h \in header : h.name # "Authorization"

C25_Witness ==
    /\ pc = "connected"
    /\ cfg.auth = "tk_secret"
    /\ outcomes # <<>>
    /\ outcomes[1].req.header = { [name |-> "Authorization", value |-> "Bearer tk_secret"] }

\* ---- C26 ----------------------------------------------------------------------
\* C26: the relay handles one event at a time.  A line is read only when the
\* post-processing (every POST and every backoff sleep) and the Send of all
\* earlier lines are over; a POST to the webhook and a Send are separate
\* steps, each for the line read last; and the Sends are those of the message
\* events in arrival order.
C26_OneEventAtATime ==
    [][ /\ (Len(arrived') > Len(arrived))
            => /\ pc = "scan" /\ cur = NoMsg
               /\ attempt = 0 /\ outcomes = <<>> /\ backoffs = <<>>
               /\ [i \in 1..Len(sends) |-> sends[i].msg] = MessagesOf(arrived)
        /\ (Len(outcomes') > Len(outcomes))
            => /\ pc = "webhook" /\ sends' = sends /\ arrived' = arrived
               /\ cur = arrived[Len(arrived)].msg
        /\ (Len(sends') > Len(sends))
            => /\ pc = "send" /\ outcomes' = <<>> /\ arrived' = arrived
               /\ Len(sends') = Len(sends) + 1
               /\ sends'[Len(sends')].msg = arrived[Len(arrived)].msg
               /\ [i \in 1..Len(sends') |-> sends'[i].msg] = MessagesOf(arrived)
      ]_vars

\* Two different message events through the webhook post-processor: the
\* first one with its retries used up, both sent in arrival order.
C26_Witness ==
    /\ pc = "scan"
    /\ cfg.pp = "webhook" /\ cfg.maxRetries = 1
    /\ Len(arrived) = 2
    /\ arrived[1].msg = NtfyMessage("message", "T", "bcd")
    /\ arrived[2].msg = NtfyMessage("message", "", "a")
    /\ Len(sends) = 2
    /\ sends[1].msg = arrived[1].msg /\ sends[1].proc = "err"
    /\ sends[2].msg = arrived[2].msg /\ sends[2].proc = "ok"

\* ---- C27 ----------------------------------------------------------------------
\* C27: when Validate fails at startup the process reports the configuration
\* error and exits, and stays exited: Connect is never called, no request is
\* made, nothing is read or sent, and nothing is tried again.
C27_InvalidConfigExits ==
    (pc # "main" /\ Validate(cfg.config) # "nil")
        => /\ pc = "exited" /\ lastEnd = "config"
           /\ connects = 0 /\ gets = 0 /\ streamOpen = 0 /\ slept = 0
           /\ arrived = <<>> /\ sends = <<>> /\ procCalls = 0

\* A configuration with a webhook and an inline template has exited.
C27_Witness ==
    /\ pc = "exited"
    /\ cfg.config.PostProcessWebhook = HookURL
    /\ cfg.config.PostProcessTemplate = TemplateTitleMessage
    /\ lastEnd = "config"
    /\ connects = 0 /\ gets = 0

\* ---- C28 ----------------------------------------------------------------------
\* The post-processing options of the configuration that are not empty.
OptionsSet ==
    Cardinality({ o \in {"PostProcessWebhook", "PostProcessTemplateFile", "PostProcessTemplate"} :
                    cfg.config[o] # "" })

SettingsInRange ==
    /\ cfg.config.WebhookTimeoutSeconds \in 1..300
    /\ cfg.config.WebhookRetries \in 0..10
    /\ cfg.config.WebhookMaxResponseSizeMB \in 1..100

TemplateCannotBeBuilt ==
    /\ cfg.config.PostProcessWebhook = ""
    /\ \/ cfg.config.PostProcessTemplateFile \in {"missing.tmpl", "bad.tmpl"}
       \/ /\ cfg.config.PostProcessTemplateFile = ""
          /\ cfg.config.PostProcessTemplate \in {TemplateBadSyntax, TemplateBadField}

\* C30: a template that cannot be constructed does not stop the app: New
\* logs the construction error, the process neither exits nor crashes for it,
\* and every message is delivered in the default format.
C30_BadTemplateFallsBack ==
    TemplateCannotBeBuilt
        => /\ cfg.newErr \in {"parse", "validation", "readfile"}
           /\ pc \notin {"exited", "panicked"}
           /\ \A i \in 1..Len(sends) :
                 sends[i].proc = "none" /\ sends[i].text = DefaultText(sends[i].msg)

\* ---- C31 ----------------------------------------------------------------------
\* C31: Process of the webhook post-processor and of the template
\* post-processor returns exactly one of a message and an error: whenever a
\* Process call has returned to handleMessageEvent, with an error the message
\* is nil, with a message the error is nil, and never neither of them.
C31_MessageXorError ==
    (pc = "send" /\ procErr # "none")
        => /\ retErr # NoError => retMsg = NilSlackMsg
           /\ retMsg # NilSlackMsg => retErr = NoError
           /\ retErr # NoError \/ retMsg # NilSlackMsg

\* The webhook answered 400: Process has returned the status error and no
\* message.
C31_Witness ==
    /\ cfg.pp = "webhook"
    /\ pc = "send"
    /\ outcomes # <<>>
    /\ outcomes[Len(outcomes)].status = 400
    /\ retErr = Error("status", 400)
    /\ retMsg = NilSlackMsg

\* ---- C32 ----------------------------------------------------------------------
\* The requests of goroutine g the endpoint has answered.
RequestsOf(g) == SelectSeq(outcomes, LAMBDA o : o.caller = g)

\* C32: with retries = 0, concurrent Process calls on one post-processor do
\* not disturb each other: a call that has posted has sent exactly one
\* request, a call whose request the endpoint answered with 200 and
\* {"text":"hello"} returns that message and no error whatever the other
\* calls were answered, and when all calls have returned the endpoint has
\* seen one request for each.
C32_ConcurrentCallsIndependent ==
    (pc = "concurrent" /\ cfg.maxRetries = 0)
        => /\ \A g \in Goroutines :
                /\ Len(RequestsOf(g)) = IF calls.at[g] \in {"handle", "done"} THEN 1 ELSE 0
                /\ (calls.at[g] = "done" /\ RequestsOf(g)[1].resp = HealthyResponse)
                     => calls.ret[g] = [msg |-> SlackMessage("hello", 5), err |-> NoError]
                /\ (calls.at[g] = "done" /\ RequestsOf(g)[1].resp # HealthyResponse)
                     => (calls.ret[g].msg = NilSlackMsg /\ calls.ret[g].err # NoError)
           /\ (\A g \in Goroutines : calls.at[g] = "done") => Len(outcomes) = MaxCalls

\* All calls have returned successfully against a healthy endpoint, which
\* has seen one request for each of them.
C32_Witness ==
    /\ pc = "concurrent"
    /\ \A g \in Goroutines :
         calls.at[g] = "done" /\ calls.ret[g] = [msg |-> SlackMessage("hello", 5), err |-> NoError]
    /\ Len(outcomes) = MaxCalls
    /\ \A i \in 1..Len(outcomes) : outcomes[i].resp = HealthyResponse
    /\ MaxCalls >= 2

\* ---- C33 ----------------------------------------------------------------------
\* C33: every runtime error (connection failure, malformed line,
\* post-processing failure, delivery failure, stream read or close failure)
\* has a log entry, at whatever level: no error of a step is without one.
C33_EveryErrorLogged ==
    \A e \in errlog : e.level # "none"

\* ---- C34 ----------------------------------------------------------------------
\* The text ProcessStream hands to the sink for a message event, as a function
\* of the configuration and the event alone (no post-processor, or a template).
ReplayText(c, msg) ==
    IF c.pp = "template" /\ ~MustacheProcess(c.template, msg).err
    THEN MustacheProcess(c.template, msg).text
    ELSE createDefaultMessage(msg)

\* C34: with a deterministic post-processor (none, or a template) the
\* sequence of events handled and of delivery attempts made on a connection is a
\* function of the lines read: whatever the sink answered and whatever was
\* read before, the attempts are the message events of the input, in order,
\* each with the text computed from that event alone, so two runs over the
\* same input produce the same sequence.
C34_DeliveriesDependOnInputOnly ==
    cfg.pp \in {"none", "template"} =>
      LET done == IF InHandler THEN SubSeq(arrived, 1, Len(arrived) - 1) ELSE arrived
          m == MessagesOf(done)
      IN [i \in 1..Len(sends) |-> [msg |-> sends[i].msg, text |-> sends[i].text]]
           = [i \in 1..Len(m) |-> [msg |-> m[i], text |-> ReplayText(cfg, m[i])]]

\* The same event read twice through a template, the first delivery failed:
\* both attempts carry the same text.
C34_Witness ==
    /\ cfg.pp = "template"
    /\ pc = "scan"
    /\ Len(arrived) = 2 /\ arrived[1] = arrived[2]
    /\ Len(sends) = 2
    /\ ~sends[1].ok
    /\ sends[1].proc = "ok"
    /\ sends[1].text = sends[2].text /\ sends[1].text # ""

\* ---- C35 ----------------------------------------------------------------------
\* C35: Process starts another attempt only after an attempt that failed in
\* transport (no response, or the body of the response could not be read) or
\* was answered with a status in [500,599]; an attempt answered otherwise
\* (2xx, 4xx, or another status below 500 such as 3xx) is the last one.
C35_RetryOnlyAfterTransportOr5xx ==
    \A i \in 1..(Len(outcomes) - 1) :
        \/ outcomes[i].kind = "neterr"
        \/ outcomes[i].readErr
        \/ outcomes[i].status \in 500..599

\* ---- C36 ----------------------------------------------------------------------
\* C36: no line of the source ends the scanner loop: a line that cannot be
\* turned into an event, a line longer than the scanner's token limit
\* included, is skipped and the loop goes on with the next line, so
\* ProcessStream never returns because of a line.
C36_NoLineEndsTheLoop ==
    lastEnd # "toolong"

\* ---- C37 ----------------------------------------------------------------------
\* C37: Connect returns a stream only for a response with status exactly
\* 200, and then leaves its body open; for a response with any other status,
\* 204 and the other 2xx included, it closes the body and returns an error.
C37_StreamOnlyFor200 ==
    (pc = "connected" /\ outcomes # <<>>) =>
        LET o == outcomes[1] IN
          IF o.resp.kind = "resp" /\ o.resp.status = 200
          THEN lastEnd = "nil" /\ streamOpen = 1 /\ ~o.closed
          ELSE /\ lastEnd = "connfail" /\ streamOpen = 0
               /\ (o.resp.kind = "resp" => o.closed)

\* A 204 answer: no stream, the body closed, an error.
C37_Witness ==
    /\ pc = "connected"
    /\ outcomes # <<>>
    /\ outcomes[1].resp.kind = "resp"
    /\ outcomes[1].resp.status = 204
    /\ outcomes[1].closed
    /\ lastEnd = "connfail"
    /\ streamOpen = 0

\* ---- C38 ----------------------------------------------------------------------
\* Process has returned for a 2xx answer whose body is valid JSON without text.
ReturnedEmptyText ==
    /\ pc = "send"
    /\ outcomes # <<>>
    /\ outcomes[Len(outcomes)].kind = "resp"
    /\ outcomes[Len(outcomes)].status \in 200..299
    /\ ~outcomes[Len(outcomes)].readErr
    /\ outcomes[Len(outcomes)].body \in EmptyTextBodies

\* C38: a 2xx answer of the webhook whose body is valid JSON without a text
\* field ({} or null) makes Process return a message with the empty text and
\* no error, and Send is called with that empty text: not with the raw body,
\* not with the default format of the event.
C38_EmptyTextIsSent ==
    [][ReturnedEmptyText =>
          /\ procErr = "ok"
          /\ retErr = NoError
          /\ retMsg = SlackMessage("", 0)
          /\ slackMsg = SlackMessage("", 0)
          /\ Len(sends') > Len(sends) =>
                /\ sends'[Len(sends')].text = ""
                /\ sends'[Len(sends')].proc = "ok"]_vars

\* The empty text went to the sink, which accepted it.
C38_Witness ==
    /\ pc = "scan"
    /\ Len(sends) = 1
    /\ sends[1].text = ""
    /\ sends[1].proc = "ok"
    /\ sends[1].ok

\* ---- C39 ----------------------------------------------------------------------
\* C39: every attempt of a Process call posts a request whose body is the
\* whole JSON serialization of the event of the call, the same bytes in every
\* attempt; no retry sends an empty or partly read body.
C39_EveryAttemptPostsWholeEvent ==
    pc \in {"webhook", "send", "blocked"} =>
      \A i \in DOMAIN outcomes :
          outcomes[i].posted = [data |-> Marshal(cur), from |-> 0]

\* A retry after a failed attempt, for an event with a title.
C39_Witness ==
    /\ pc = "send"
    /\ cur = NtfyMessage("message", "T", "bcd")
    /\ Len(outcomes) = 2
    /\ RetryableFailure(outcomes[1])
    /\ outcomes[2].posted.data
         = "{\"Id\":\"\",\"Time\":0,\"Event\":\"message\",\"Topic\":\"\",\"Title\":\"T\",\"Message\":\"bcd\"}"
    /\ outcomes[2].posted.from = 0

\* ---- C40 ----------------------------------------------------------------------
\* C40: when more than one post-processing option is set in the
\* configuration New is given, one post-processor is installed, built from one
\* option alone, chosen by precedence: the webhook when it is set, else the
\* template file, and never the inline template, which is the lowest of two.
C40_WebhookOverFileOverInline ==
    OptionsSet > 1 =>
        IF cfg.config.PostProcessWebhook # ""
        THEN cfg.pp = "webhook" /\ cfg.template = "" /\ cfg.newErr = "nil"
        ELSE LET r == NewMustachePostProcessorFromFile(cfg.config.PostProcessTemplateFile) IN
               /\ cfg.config.PostProcessTemplateFile # ""
               /\ cfg.newErr = r.err
               /\ cfg.template = r.template
               /\ cfg.pp = IF r.err = "nil" THEN "template" ELSE "nilptr"

\* All three options set: Validate has rejected the configuration New had
\* already built the app for, with the webhook.
C40_Witness ==
    /\ pc = "validated"
    /\ lastEnd = "only one option"
    /\ OptionsSet = 3
    /\ cfg.pp = "webhook"

====
